---- MODULE Spec2Model ----
(***************************************************************************)
(* A model of the chat relay of src/chat_backend.py: the /chat handler,    *)
(* the detached delegation process_agent_response, the agent invocation    *)
(* get_agent_response, and the database paths they write.                  *)
(*                                                                         *)
(* Strings are sequences of tokens (a token is a TLA+ string standing for  *)
(* a fixed piece of text); the tokens are chosen so that two token         *)
(* sequences are equal exactly when the texts they spell are equal, and    *)
(* the substring "Error:" occurs in a text exactly when the token "Error:" *)
(* occurs in its sequence.                                                 *)
(***************************************************************************)
EXTENDS Integers, Sequences, FiniteSets, TLC

VARIABLES
    env_MAIN_AGENT_URL,   \* os.getenv("MAIN_AGENT_URL"): "" when not set
    db,                   \* the real-time database: path -> value written
    generated,            \* the identifiers uuid.uuid4() has returned so far
    request,              \* request[r]: the body of /chat request r
    pc,                   \* pc[r]: position of the handler chat for request r
    user_message_id,      \* chat's local user_message_id
    dpc,                  \* dpc[r]: position of r's background task
    response_dict,        \* get_agent_response's local response_dict
    agent_response_text,  \* process_agent_response's local agent_response_text
    agent_message_id,     \* process_agent_response's local agent_message_id
    open_connections,     \* RemoteConnections created and not yet closed
    trace,                \* trace[r]: what request r has done, in order
    keyA, keyB,           \* two conversation keys (path derivation)
    pathsA, pathsB,       \* the database paths written for keyA and for keyB
    process,              \* the server process: starting, serving or exited
    env_GOOGLE_APPLICATION_CREDENTIALS,  \* os.getenv(...): "" when not set
    env_FIREBASE_DATABASE_URL,           \* os.getenv(...): "" when not set
    context_state,        \* callback_context.state / tool_context.state
    sample_file,          \* what is at SAMPLE_SCENARIO_PATH
    last_call             \* the last call into main_agent/memory.py

vars == <<env_MAIN_AGENT_URL, db, generated, request, pc, user_message_id, dpc,
          response_dict, agent_response_text, agent_message_id,
          open_connections, trace, keyA, keyB, pathsA, pathsB, process,
          env_GOOGLE_APPLICATION_CREDENTIALS, env_FIREBASE_DATABASE_URL,
          context_state, sample_file, last_call>>

relayVars == <<env_MAIN_AGENT_URL, db, generated, request, pc, user_message_id,
               dpc, response_dict, agent_response_text, agent_message_id,
               open_connections, trace>>

pathVars == <<keyA, keyB, pathsA, pathsB>>

startVars == <<process, env_GOOGLE_APPLICATION_CREDENTIALS,
               env_FIREBASE_DATABASE_URL>>

memoryVars == <<context_state, sample_file, last_call>>

-----------------------------------------------------------------------------
(* Bounds *)

\* Number of /chat requests in flight over a run.
MaxReqs == 2

\* Longest user_id / itinerary_id, in tokens, of the path derivation.
MaxIdLen == 3

Reqs == 1..MaxReqs

-----------------------------------------------------------------------------
(* Python values *)

\* A str with the given text.
Str(s) == [type |-> "str", s |-> s]

\* None.
PyNone == [type |-> "NoneType", s |-> <<>>]

\* A local that has not been assigned.
Unset == [type |-> "unset", s |-> <<>>]

\* The empty dict.
EmptyDict == [k \in {} |-> PyNone]

\* `sub in text` for a one-token sub.
Contains(text, sub) == \E i \in 1..Len(text) : text[i] = sub

\* d.get(k, default)
DictGet(d, k, default) == IF k \in DOMAIN d THEN d[k] ELSE default

\* Adds (or replaces) one entry of a finite function.
Put(f, k, v) == [x \in (DOMAIN f) \cup {k} |-> IF x = k THEN v ELSE f[x]]

-----------------------------------------------------------------------------
(* Database paths *)

\* f"users/{user_id}/itineraries/{itinerary_id}/messages"
messages_path(user_id, itinerary_id) ==
    <<"users/">> \o user_id \o <<"/itineraries/">> \o itinerary_id \o <<"/messages">>

\* messages_ref.child(name): the path of one child of the collection.
child(path, name) == path \o <<"/", name>>

\* messages_ref.update({"typing": ...}) writes the child named typing.
typing_path(user_id, itinerary_id) ==
    child(messages_path(user_id, itinerary_id), "typing")

\* The pool uuid.uuid4() draws from.
UUIDPool == {"id1", "id2", "id3", "id4", "id5", "id6", "id7", "id8"}

\* Faulty variant of uuid4: the identifier is a fixed string, not a fresh one.
uuid4_Fixed(used) == "id1"

\* str(uuid.uuid4()): an identifier that was never returned before.
uuid4(used) == CHOOSE u \in UUIDPool \ used : TRUE

-----------------------------------------------------------------------------
(* Requests and agent replies *)

UserIds == {<<"a">>, <<"b">>}
ItineraryIds == {<<"a">>}
UserTexts == {<<"Hello">>}

\* ChatRequest
ChatRequest == [user_id : UserIds, itinerary_id : ItineraryIds, message : UserTexts]

NoRequest == [user_id |-> <<>>, itinerary_id |-> <<>>, message |-> <<>>]

\* Message(...).model_dump(); the timestamp is left out, nothing reads it.
Message(sender, message) ==
    [sender |-> sender, message |-> message, activityType |-> "None",
     activity_object |-> "None", bookingRef |-> "None", message_type |-> "text"]

\* json.dumps({"result": inner, "state": state}) as the agent produces it.
EncodeEnvelope(inner, state) ==
    <<"{\"result\": \"">> \o inner \o <<"\", \"state\": ">> \o state \o <<"}">>

AnswerTexts == {<<"Paris is lovely">>}
StateTexts == {<<"{\"days\": []}">>}
PlainTexts == {<<"plain text, not JSON">>, <<"HTTP ", "Error:", " 404 explained">>}
EnvelopeTexts == {EncodeEnvelope(a, s) : a \in AnswerTexts, s \in StateTexts}
ErrorTexts == {<<"timeout">>}

\* The dicts get_agent_response tells apart: a result (a str, or malformed:
\* not a str), an error, neither.
PlainReplies ==
    {[k \in {"result"} |-> Str(t)] : t \in PlainTexts}
    \cup {[k \in {"error"} |-> Str(t)] : t \in ErrorTexts}
    \cup {EmptyDict}
    \cup {[k \in {"result"} |-> PyNone]}

\* A result that is a JSON-encoded envelope.
EnvelopeReplies == {[k \in {"result"} |-> Str(t)] : t \in EnvelopeTexts}

\* What connections.invoke_agent may return.
AgentReplies == PlainReplies \cup EnvelopeReplies

-----------------------------------------------------------------------------
(* get_agent_response *)

NotConfiguredText == Str(<<"Error:", " Main agent URL not configured.">>)
CouldNotConnectText == Str(<<"Error:", " Could not connect to the main agent.">>)
UnknownErrorText == Str(<<"Unknown error from agent.">>)

\* f"Error: {error_message}"
ErrorReturn(error_message) == Str(<<"Error:", " ">> \o error_message.s)

\* Faulty variant of ResultOf: response_dict["error"] instead of .get with a
\* default, so a dict with neither key raises KeyError inside the try block.
ResultOf_KeyError(d) ==
    IF "result" \in DOMAIN d
    THEN d["result"]
    ELSE IF "error" \in DOMAIN d
    THEN ErrorReturn(d["error"])
    ELSE CouldNotConnectText

\* What get_agent_response returns for the dict invoke_agent gave it.
ResultOf(d) ==
    IF "result" \in DOMAIN d
    THEN d["result"]
    ELSE ErrorReturn(DictGet(d, "error", UnknownErrorText))

\* `"Error:" not in agent_response_text`, for a str.
NotErrorText(text) == ~Contains(text.s, "Error:")

-----------------------------------------------------------------------------
(* The state after start-up *)

RelayInit ==
    /\ db = [p \in {} |-> FALSE]
    /\ generated = {}
    /\ request = [r \in Reqs |-> NoRequest]
    /\ pc = [r \in Reqs |-> "idle"]
    /\ user_message_id = [r \in Reqs |-> "unset"]
    /\ dpc = [r \in Reqs |-> "none"]
    /\ response_dict = [r \in Reqs |-> EmptyDict]
    /\ agent_response_text = [r \in Reqs |-> Unset]
    /\ agent_message_id = [r \in Reqs |-> "unset"]
    /\ open_connections = 0
    /\ trace = [r \in Reqs |-> <<>>]

NoKey == [user_id |-> <<>>, itinerary_id |-> <<>>]

\* No key is being derived.
PathIdle ==
    /\ keyA = NoKey /\ keyB = NoKey
    /\ pathsA = {} /\ pathsB = {}

\* The files that exist: os.path.exists(cred_path).
ExistingFiles == {"/key.json"}

\* The module was imported without sys.exit: both Firebase settings are there
\* and firebase_admin.initialize_app returned.
Serving ==
    /\ process = "serving"
    /\ env_GOOGLE_APPLICATION_CREDENTIALS = "/key.json"
    /\ env_FIREBASE_DATABASE_URL = "https://db"

NoCall == [op |-> "none", key |-> <<>>, value |-> PyNone, result |-> "none"]

\* There is no file at SAMPLE_SCENARIO_PATH: open raises FileNotFoundError.
NoFile == [exists |-> FALSE, parses |-> FALSE, data |-> PyNone]

\* main_agent/memory.py has not been called.
MemoryIdle ==
    /\ context_state = EmptyDict
    /\ sample_file = NoFile
    /\ last_call = NoCall

Init ==
    /\ env_MAIN_AGENT_URL \in {"", "http://main-agent"}
    /\ RelayInit
    /\ PathIdle
    /\ Serving
    /\ MemoryIdle

Log(r, events) == trace' = [trace EXCEPT ![r] = @ \o events]

MessagesPathOf(r) == messages_path(request[r].user_id, request[r].itinerary_id)
TypingPathOf(r) == typing_path(request[r].user_id, request[r].itinerary_id)

-----------------------------------------------------------------------------
(* chat: the /chat handler *)
(* The handler has no await: its database writes are blocking calls, so it *)
(* runs from the arrival of the request to its return as one step of the   *)
(* event loop. The response is sent afterwards, and then the task runs.    *)

\* Faulty variant of ChatRaise: the failure is logged and the handler carries on to
\* add the task.
ChatRaise_Swallows(r, events, d) ==
    /\ pc' = [pc EXCEPT ![r] = "task_added"]
    /\ dpc' = [dpc EXCEPT ![r] = "queued"]
    /\ Log(r, events \o <<"add_task">>)
    /\ db' = d

\* except Exception in chat: a statement of the try block raised, with the
\* database as d; the handler raises HTTPException(500).
ChatRaise(r, events, d) ==
    /\ pc' = [pc EXCEPT ![r] = "failed"]
    /\ Log(r, events \o <<"http_500">>)
    /\ db' = d
    /\ UNCHANGED dpc

\* The handler, from the arrival of request r (requests are numbered in their
\* order of arrival) to its return statement or its HTTPException.
ChatHandle(r, body) ==
    /\ process = "serving"
    /\ pc[r] = "idle"
    /\ \A q \in Reqs : q < r => pc[q] # "idle"
    /\ request' = [request EXCEPT ![r] = body]
    /\ LET path == messages_path(body.user_id, body.itinerary_id)
           id == uuid4(generated)
           stored == Put(db, child(path, id), Message("user", body.message))
       IN
        /\ generated' = generated \cup {id}
        /\ user_message_id' = [user_message_id EXCEPT ![r] = id]
        /\ \/ \* 1. messages_ref.child(user_message_id).set(...) raises
              ChatRaise(r, <<"received", "user_message_set_raised">>, db)
           \/ \* 2. messages_ref.update({"typing": True}) raises
              ChatRaise(r, <<"received", "user_message_set", "typing_true_raised">>,
                        stored)
           \/ \* 3. background_tasks.add_task(...), 4. return
              /\ db' = Put(stored, child(path, "typing"), TRUE)
              /\ pc' = [pc EXCEPT ![r] = "task_added"]
              /\ dpc' = [dpc EXCEPT ![r] = "queued"]
              /\ Log(r, <<"received", "user_message_set", "typing_true", "add_task">>)
    /\ UNCHANGED <<env_MAIN_AGENT_URL, response_dict, agent_response_text,
                   agent_message_id, open_connections, pathVars, startVars, memoryVars>>

\* The success response of the handler is sent to the caller.
ChatReturn(r) ==
    /\ pc[r] = "task_added"
    /\ pc' = [pc EXCEPT ![r] = "responded"]
    /\ Log(r, <<"http_200">>)
    /\ UNCHANGED <<env_MAIN_AGENT_URL, db, generated, request, user_message_id,
                   dpc, response_dict, agent_response_text, agent_message_id,
                   open_connections, pathVars, startVars, memoryVars>>

-----------------------------------------------------------------------------
(* process_agent_response: the background task, and get_agent_response *)
(* The task is suspended only at the three awaits of get_agent_response;   *)
(* what lies between two awaits is one step.                               *)

\* Faulty variant of TaskMayStart: the task is run where it is added, before the
\* response is sent.
TaskMayStart_Inline(r) == pc[r] \in {"task_added", "responded"}

\* BackgroundTasks runs a task after the response of its request was sent.
TaskMayStart(r) == pc[r] = "responded"

\* Faulty variant of Finally: typing is cleared inside the block that stores the reply,
\* so a delegation that stored none leaves it set.
Finally_OnlyAfterReply(r, events, d) ==
    IF \E i \in 1..Len(events) : events[i] = "agent_message_set"
    THEN /\ db' = Put(d, TypingPathOf(r), FALSE)
         /\ dpc' = [dpc EXCEPT ![r] = "done"]
         /\ Log(r, events \o <<"typing_false">>)
    ELSE /\ db' = d
         /\ dpc' = [dpc EXCEPT ![r] = "done"]
         /\ Log(r, events \o <<"typing_kept">>)

\* finally: messages_ref.update({"typing": False}), with the database as d. If
\* the update raises, the exception leaves the task.
Finally(r, events, d) ==
    \/ /\ db' = Put(d, TypingPathOf(r), FALSE)
       /\ dpc' = [dpc EXCEPT ![r] = "done"]
       /\ Log(r, events \o <<"typing_false">>)
    \/ /\ db' = d
       /\ dpc' = [dpc EXCEPT ![r] = "raised"]
       /\ Log(r, events \o <<"typing_false_raised">>)

\* Faulty variant of Caught: the clearing write is the last statement of the try block
\* instead of a finally block, so an exception skips it.
Caught_SkipsFinally(r, events, d) ==
    /\ db' = d
    /\ dpc' = [dpc EXCEPT ![r] = "raised"]
    /\ Log(r, events \o <<"exception_logged">>)

\* except Exception: the error is logged, and control passes to finally.
Caught(r, events, d) == Finally(r, events \o <<"exception_logged">>, d)

\* Faulty variant of Return: typing is cleared as soon as the agent's text is there,
\* and the reply is written afterwards.
Return_ClearsFirst(r, events, text) ==
    /\ agent_response_text' = [agent_response_text EXCEPT ![r] = text]
    /\ dpc' = [dpc EXCEPT ![r] = "done"]
    /\ LET ev == events \o <<"agent_returned", "typing_false">>
           cleared == Put(db, TypingPathOf(r), FALSE)
       IN
        IF text.type # "str" \/ ~NotErrorText(text)
        THEN /\ db' = cleared
             /\ Log(r, ev)
             /\ UNCHANGED <<generated, agent_message_id>>
        ELSE LET id == uuid4(generated) IN
             /\ generated' = generated \cup {id}
             /\ agent_message_id' = [agent_message_id EXCEPT ![r] = id]
             /\ db' = Put(cleared, child(MessagesPathOf(r), id),
                          Message("model", text.s))
             /\ Log(r, ev \o <<"agent_message_set">>)

\* get_agent_response returns text, and process_agent_response runs to its end:
\* the test for "Error:", the reply's write, the finally block.
Return(r, events, text) ==
    /\ agent_response_text' = [agent_response_text EXCEPT ![r] = text]
    /\ LET ev == events \o <<"agent_returned">> IN
        IF text.type # "str"
        THEN \* `in` raises TypeError
             /\ Caught(r, ev \o <<"type_error">>, db)
             /\ UNCHANGED <<generated, agent_message_id>>
        ELSE IF ~NotErrorText(text)
        THEN /\ Finally(r, ev \o <<"reply_skipped">>, db)
             /\ UNCHANGED <<generated, agent_message_id>>
        ELSE LET id == uuid4(generated) IN
             /\ generated' = generated \cup {id}
             /\ agent_message_id' = [agent_message_id EXCEPT ![r] = id]
             /\ \/ Finally(r, ev \o <<"agent_message_set">>,
                           Put(db, child(MessagesPathOf(r), id),
                               Message("model", text.s)))
                \/ Caught(r, ev \o <<"agent_message_set_raised">>, db)

\* Faulty variant of TaskStart: get_agent_response does not look at
\* MAIN_AGENT_URL before it creates the connection.
TaskStart_NoUrlCheck(r) ==
    /\ dpc[r] = "queued"
    /\ TaskMayStart(r)
    /\ dpc' = [dpc EXCEPT ![r] = "creating"]
    /\ Log(r, <<"get_agent_response">>)
    /\ UNCHANGED <<db, generated, agent_response_text, agent_message_id>>
    /\ UNCHANGED <<env_MAIN_AGENT_URL, request, pc, user_message_id,
                   response_dict, open_connections, pathVars, startVars, memoryVars>>

\* Faulty variant of TaskStart: the task clears typing when it starts, before
\* the agent is called.
TaskStart_ClearsEarly(r) ==
    /\ dpc[r] = "queued"
    /\ TaskMayStart(r)
    /\ IF env_MAIN_AGENT_URL = ""
       THEN Return(r, <<"get_agent_response">>, NotConfiguredText)
       ELSE /\ dpc' = [dpc EXCEPT ![r] = "creating"]
            /\ db' = Put(db, TypingPathOf(r), FALSE)
            /\ Log(r, <<"get_agent_response">>)
            /\ UNCHANGED <<generated, agent_response_text, agent_message_id>>
    /\ UNCHANGED <<env_MAIN_AGENT_URL, request, pc, user_message_id,
                   response_dict, open_connections, pathVars, startVars, memoryVars>>

\* The task starts: get_agent_response reads MAIN_AGENT_URL and, when it is
\* set, awaits RemoteConnections.create().
TaskStart(r) ==
    /\ dpc[r] = "queued"
    /\ TaskMayStart(r)
    /\ IF env_MAIN_AGENT_URL = ""
       THEN Return(r, <<"get_agent_response">>, NotConfiguredText)
       ELSE /\ dpc' = [dpc EXCEPT ![r] = "creating"]
            /\ Log(r, <<"get_agent_response">>)
            /\ UNCHANGED <<db, generated, agent_response_text, agent_message_id>>
    /\ UNCHANGED <<env_MAIN_AGENT_URL, request, pc, user_message_id,
                   response_dict, open_connections, pathVars, startVars, memoryVars>>

\* connections = await RemoteConnections.create() ends.
ConnCreate(r) ==
    /\ dpc[r] = "creating"
    /\ \/ /\ open_connections' = open_connections + 1
          /\ dpc' = [dpc EXCEPT ![r] = "invoking"]
          /\ Log(r, <<"connection_created">>)
          /\ UNCHANGED <<db, generated, agent_response_text, agent_message_id>>
       \/ /\ Return(r, <<"create_raised">>, CouldNotConnectText)
          /\ UNCHANGED open_connections
    /\ UNCHANGED <<env_MAIN_AGENT_URL, request, pc, user_message_id,
                   response_dict, pathVars, startVars, memoryVars>>

\* response_dict = await connections.invoke_agent(main_agent_url, user_message)
\* ends.
ConnInvoke(r) ==
    /\ dpc[r] = "invoking"
    /\ \/ \E reply \in AgentReplies :
            /\ response_dict' = [response_dict EXCEPT ![r] = reply]
            /\ dpc' = [dpc EXCEPT ![r] = "closing"]
            /\ Log(r, <<"agent_invoked">>)
            /\ UNCHANGED <<db, generated, agent_response_text, agent_message_id>>
       \/ /\ Return(r, <<"invoke_raised">>, CouldNotConnectText)
          /\ UNCHANGED response_dict
    /\ UNCHANGED <<env_MAIN_AGENT_URL, request, pc, user_message_id,
                   open_connections, pathVars, startVars, memoryVars>>

\* await connections.close() ends, then the reading of response_dict.
ConnClose(r) ==
    /\ dpc[r] = "closing"
    /\ \/ /\ open_connections' = open_connections - 1
          /\ Return(r, <<"connection_closed">>, ResultOf(response_dict[r]))
       \/ /\ Return(r, <<"close_raised">>, CouldNotConnectText)
          /\ UNCHANGED open_connections
    /\ UNCHANGED <<env_MAIN_AGENT_URL, request, pc, user_message_id,
                   response_dict, pathVars, startVars, memoryVars>>

process_agent_response(r) ==
    \/ TaskStart(r)
    \/ ConnCreate(r)
    \/ ConnInvoke(r)
    \/ ConnClose(r)

-----------------------------------------------------------------------------
(* The relay *)

Next ==
    \/ \E r \in Reqs, body \in ChatRequest : ChatHandle(r, body)
    \/ \E r \in Reqs : ChatReturn(r)
    \/ \E r \in Reqs : process_agent_response(r)

Spec == Init /\ [][Next]_vars

-----------------------------------------------------------------------------
(* Path derivation: the paths the relay writes for a conversation key *)

IdTokens == {"a", "/itineraries/"}

\* The non-empty user_id and itinerary_id strings of at most MaxIdLen tokens.
Ids == UNION {[1..n -> IdTokens] : n \in 1..MaxIdLen}

ConversationKeys == [user_id : Ids, itinerary_id : Ids]

\* The paths chat and process_agent_response write for a key: one per message
\* identifier, and the typing field.
WrittenPaths(key) ==
    {child(messages_path(key.user_id, key.itinerary_id), id) : id \in UUIDPool}
    \cup {typing_path(key.user_id, key.itinerary_id)}

PathInit ==
    /\ env_MAIN_AGENT_URL = "http://main-agent"
    /\ RelayInit
    /\ keyA \in ConversationKeys /\ keyB \in ConversationKeys
    /\ pathsA = {} /\ pathsB = {}
    /\ Serving
    /\ MemoryIdle

DerivePaths ==
    /\ pathsA = {} /\ pathsB = {}
    /\ pathsA' = WrittenPaths(keyA)
    /\ pathsB' = WrittenPaths(keyB)
    /\ UNCHANGED <<relayVars, keyA, keyB, startVars, memoryVars>>

PathNext == DerivePaths

PathSpec == PathInit /\ [][PathNext]_vars

-----------------------------------------------------------------------------
(* Startup: the import of chat_backend, then uvicorn.run *)

\* The try block at the top of the module, from os.getenv to initialize_app.
\* Every sys.exit and every exception ends in sys.exit; app is served only when
\* the block ends normally. MAIN_AGENT_URL is not read here.
Startup ==
    /\ process = "starting"
    /\ IF \/ env_GOOGLE_APPLICATION_CREDENTIALS = ""
          \/ env_GOOGLE_APPLICATION_CREDENTIALS \notin ExistingFiles
          \/ env_FIREBASE_DATABASE_URL = ""
       THEN process' = "exited"
       ELSE \/ process' = "serving"
            \/ \* credentials.Certificate or initialize_app raises
               process' = "exited"
    /\ UNCHANGED <<relayVars, pathVars, env_GOOGLE_APPLICATION_CREDENTIALS,
                   env_FIREBASE_DATABASE_URL, memoryVars>>

StartInit ==
    /\ process = "starting"
    /\ env_GOOGLE_APPLICATION_CREDENTIALS \in {"", "/no-such-file.json", "/key.json"}
    /\ env_FIREBASE_DATABASE_URL \in {"", "https://db"}
    /\ env_MAIN_AGENT_URL \in {"", "http://main-agent"}
    /\ RelayInit
    /\ PathIdle
    /\ MemoryIdle

StartNext == Startup \/ Next

StartSpec == StartInit /\ [][StartNext]_vars

\* The response of every handled request is sent and its task is scheduled
\* fairly, and every awaited call of the task ends (returns or raises).
Fairness ==
    \A r \in Reqs : WF_vars(ChatReturn(r)) /\ WF_vars(process_agent_response(r))

FairSpec == Spec /\ Fairness

-----------------------------------------------------------------------------
(* Reading a request's trace *)

Happened(r, e) == \E i \in 1..Len(trace[r]) : trace[r][i] = e

\* e occurs exactly once in r's trace.
Once(r, e) == Len(SelectSeq(trace[r], LAMBDA x : x = e)) = 1

\* The steps of a request's delegation.
DelegationEvents ==
    {"get_agent_response", "connection_created", "create_raised",
     "agent_invoked", "invoke_raised", "connection_closed", "close_raised",
     "agent_returned", "type_error", "reply_skipped", "agent_message_set",
     "agent_message_set_raised", "exception_logged", "typing_false",
     "typing_false_raised"}

UserMessagePathOf(r) == child(MessagesPathOf(r), user_message_id[r])
AgentMessagePathOf(r) == child(MessagesPathOf(r), agent_message_id[r])

\* The record of r's user message is in the conversation's collection.
UserMessagePresent(r) ==
    /\ UserMessagePathOf(r) \in DOMAIN db
    /\ db[UserMessagePathOf(r)] = Message("user", request[r].message)

\* The handler and the delegation of r have both ended.
Ended(r) ==
    \/ pc[r] = "failed"
    \/ pc[r] = "responded" /\ dpc[r] \in {"done", "raised"}

-----------------------------------------------------------------------------
(* C1 *)

\* The events C1 orders: the user-message write, the success response, and the
\* steps of the delegation.
IsC1Event(e) == e \in {"user_message_set", "http_200"} \cup DelegationEvents

\* C1: whenever a request has received the success response, its user message
\* (sender user, text of the request) was written before the response and is in
\* the conversation's collection, and every step of its delegation (agent
\* invocation, reply write, typing clear) comes after the response.
C1_ResponseAfterUserMessageBeforeDelegation ==
    \A r \in Reqs :
        LET steps == SelectSeq(trace[r], IsC1Event) IN
        IF Len(steps) >= 2 /\ steps[2] = "http_200"
        THEN /\ steps[1] = "user_message_set"
             /\ UserMessagePresent(r)
             /\ \A i \in 3..Len(steps) : steps[i] \in DelegationEvents
        ELSE steps \in {<<>>, <<"user_message_set">>}

\* A request got the success response, and later its delegation invoked the
\* agent and wrote the reply.
C1_Witness ==
    \E r \in Reqs :
        /\ Happened(r, "http_200")
        /\ Happened(r, "agent_invoked")
        /\ Happened(r, "agent_message_set")

-----------------------------------------------------------------------------
(* C2 *)

\* The typing=false write, accepted or rejected by the database.
TypingFalseEvents == {"typing_false", "typing_false_raised"}

TypingFalseIssued(r) ==
    \E i \in 1..Len(trace[r]) : trace[r][i] \in TypingFalseEvents

\* The writes of the typing field.
IsTypingWrite(e) == e \in {"typing_true", "typing_false", "typing_false_raised"}

\* The events C2 orders: the writes of the typing field (a rejected typing=true
\* write is no write) and the success response.
IsC2Event(e) == e \in {"typing_true", "http_200", "typing_false", "typing_false_raised"}

\* C2 as claimed: every request, once it has ended, has written typing true
\* exactly once and typing false exactly once, the true write first.
C2_Original ==
    \A r \in Reqs :
        Ended(r) =>
            LET writes == SelectSeq(trace[r], IsTypingWrite) IN
            /\ Len(writes) = 2
            /\ writes[1] = "typing_true"
            /\ writes[2] \in TypingFalseEvents

\* C2 amended: every request writes typing true at most once and issues the
\* typing=false write at most once, never before the true write has been made;
\* a request that received the success response has written typing true exactly
\* once, in the handler (before the response), and once its delegation has
\* ended the typing=false write has been issued exactly once, by the delegation
\* (after the response), whatever the agent call did; a request that received
\* no success response issues none.
C2_TypingOncePerDelegatedRequest ==
    \A r \in Reqs :
        LET steps == SelectSeq(trace[r], IsC2Event) IN
        /\ \/ steps \in {<<>>, <<"typing_true">>, <<"typing_true", "http_200">>}
           \/ /\ Len(steps) = 3
              /\ steps[1] = "typing_true"
              /\ steps[2] = "http_200"
              /\ steps[3] \in TypingFalseEvents
        /\ (pc[r] = "responded" /\ Ended(r)) => Len(steps) = 3

\* Delegations have ended after each kind of agent outcome: a reply that was
\* stored, an error result, malformed data, and a raising call.
C2_Witness ==
    /\ \E r \in Reqs : Ended(r) /\ Happened(r, "typing_false")
                        /\ Happened(r, "invoke_raised")
    /\ \E r \in Reqs : Ended(r) /\ Happened(r, "typing_false")
                        /\ (Happened(r, "type_error") \/ Happened(r, "reply_skipped")
                            \/ Happened(r, "agent_message_set"))

-----------------------------------------------------------------------------
(* C3 *)

-----------------------------------------------------------------------------
(* C4 *)

\* The agent invocation of r ended with an error-flavoured result: the endpoint
\* is not configured, the connection failed, or the reply carries no result.
ErrorFlavoured(r) ==
    /\ Happened(r, "agent_returned")
    /\ \/ env_MAIN_AGENT_URL = ""
       \/ Happened(r, "create_raised")
       \/ Happened(r, "invoke_raised")
       \/ Happened(r, "close_raised")
       \/ Happened(r, "connection_closed") /\ "result" \notin DOMAIN response_dict[r]

\* C4 as claimed: when a delegation has finished after an error-flavoured agent
\* result, a message with sender model whose text carries the failure is in the
\* conversation (unless its write was rejected), and typing was cleared.
C4_ErrorReplyPersisted ==
    \A r \in Reqs :
        (dpc[r] \in {"done", "raised"} /\ ErrorFlavoured(r)
            /\ ~Happened(r, "agent_message_set_raised")) =>
            /\ Happened(r, "agent_message_set")
            /\ AgentMessagePathOf(r) \in DOMAIN db
            /\ db[AgentMessagePathOf(r)].sender = "model"
            /\ Contains(db[AgentMessagePathOf(r)].message, "Error:")
            /\ TypingFalseIssued(r)

-----------------------------------------------------------------------------
(* C5 *)

\* C5: a request whose user-message write failed ends with the 500 response,
\* makes no typing=true write, enqueues no task and never invokes the agent.
C5_UserWriteFailureIsFatal ==
    \A r \in Reqs :
        Happened(r, "user_message_set_raised") =>
            /\ pc[r] = "failed"
            /\ Happened(r, "http_500") /\ ~Happened(r, "http_200")
            /\ ~Happened(r, "typing_true") /\ ~Happened(r, "typing_true_raised")
            /\ ~Happened(r, "add_task") /\ dpc[r] = "none"
            /\ \A i \in 1..Len(trace[r]) : trace[r][i] \notin DelegationEvents
            /\ UserMessagePathOf(r) \notin DOMAIN db

\* A request's user-message write failed while another request was delegated.
C5_Witness ==
    \E r, q \in Reqs :
        /\ Happened(r, "user_message_set_raised")
        /\ pc[r] = "failed"
        /\ dpc[q] = "done"

-----------------------------------------------------------------------------
(* C6 *)

\* C6 as claimed: a failing typing=true write is swallowed (the request still
\* enqueues its task and returns success), and a 500 is produced only when the
\* user-message write fails.
C6_TypingFailureSwallowed ==
    \A r \in Reqs :
        /\ (Happened(r, "typing_true_raised") /\ pc[r] \in {"failed", "responded"}) =>
               /\ Happened(r, "add_task")
               /\ Happened(r, "http_200")
        /\ Happened(r, "http_500") => Happened(r, "user_message_set_raised")

-----------------------------------------------------------------------------
(* C7 *)

\* sub occurs in text as a run of consecutive tokens.
ContainsSeq(text, sub) ==
    \E i \in 1..Len(text) :
        /\ i + Len(sub) - 1 <= Len(text)
        /\ SubSeq(text, i, i + Len(sub) - 1) = sub

\* The str result of the reply r's invocation returned, if it has one.
HasStrResult(r) ==
    /\ Happened(r, "connection_closed")
    /\ "result" \in DOMAIN response_dict[r]
    /\ response_dict[r]["result"].type = "str"

\* C7 as claimed: when the reply's result is an envelope with a nested result,
\* the persisted model message's text is the nested result, and the nested
\* state does not appear in it.
C7_EnvelopeUnwrapped ==
    \A r \in Reqs : \A a \in AnswerTexts, st \in StateTexts :
        (/\ HasStrResult(r)
         /\ response_dict[r]["result"].s = EncodeEnvelope(a, st)
         /\ Happened(r, "agent_message_set")) =>
            /\ db[AgentMessagePathOf(r)].message = a
            /\ ~ContainsSeq(db[AgentMessagePathOf(r)].message, st)

-----------------------------------------------------------------------------
(* C8 *)

\* C8 as claimed: when the reply's result is a plain-text string and the
\* delegation has ended (the reply write not rejected), exactly one model
\* message was persisted for the request, with that string as its text.
C8_PlainTextVerbatim ==
    \A r \in Reqs :
        (/\ HasStrResult(r)
         /\ response_dict[r]["result"].s \in PlainTexts
         /\ dpc[r] \in {"done", "raised"}
         /\ ~Happened(r, "agent_message_set_raised")) =>
            /\ Once(r, "agent_message_set")
            /\ AgentMessagePathOf(r) \in DOMAIN db
            /\ db[AgentMessagePathOf(r)]
                    = Message("model", response_dict[r]["result"].s)

-----------------------------------------------------------------------------
(* C9 *)

\* C9 as claimed: the paths written for two distinct conversation keys are
\* disjoint, and distinct keys have distinct messages paths.
C9_PathsDisjoint ==
    (keyA # keyB /\ pathsA # {}) =>
        /\ pathsA \cap pathsB = {}
        /\ messages_path(keyA.user_id, keyA.itinerary_id)
                # messages_path(keyB.user_id, keyB.itinerary_id)

-----------------------------------------------------------------------------
(* C10 *)

IsTypingPath(p) == p[Len(p)] = "typing"

\* The identifiers the handlers have drawn for their messages are all different.
DistinctIdentifiers ==
    \A r, q \in Reqs :
        /\ (user_message_id[r] # "unset" /\ agent_message_id[q] # "unset")
                => user_message_id[r] # agent_message_id[q]
        /\ (r # q /\ user_message_id[r] # "unset")
                => user_message_id[r] # user_message_id[q]
        /\ (r # q /\ agent_message_id[r] # "unset")
                => agent_message_id[r] # agent_message_id[q]

\* The paths under which messages are written are not the typing field, and
\* the paths under which typing is written hold no message record.
MessageAndTypingPathsApart ==
    /\ \A r \in Reqs :
        /\ user_message_id[r] # "unset" => ~IsTypingPath(UserMessagePathOf(r))
        /\ agent_message_id[r] # "unset" => ~IsTypingPath(AgentMessagePathOf(r))
    /\ \A p \in DOMAIN db :
        IF IsTypingPath(p)
        THEN \A r \in Reqs : p \notin {UserMessagePathOf(r), AgentMessagePathOf(r)}
        ELSE db[p].sender \in {"user", "model"}

\* A step keeps every message record as it is and adds records only under
\* paths that held nothing.
AppendOnlyStep ==
    /\ DOMAIN db \subseteq DOMAIN db'
    /\ \A p \in DOMAIN db :
            ~IsTypingPath(p) => db'[p] = db[p]

\* C10: the message collection is append-only under every interleaving of the
\* requests and delegations: a written message record is never overwritten,
\* changed or deleted, no two writes use the same identifier, a message write
\* leaves the typing field alone and a typing write leaves the records alone.
C10_AppendOnly ==
    /\ [](DistinctIdentifiers /\ MessageAndTypingPathsApart)
    /\ [][AppendOnlyStep]_vars

\* Two requests of one conversation have both stored their user message and a
\* reply, and typing was written in between.
C10_Witness ==
    \E r, q \in Reqs :
        /\ r # q
        /\ request[r].user_id = request[q].user_id
        /\ Happened(r, "agent_message_set") /\ Happened(q, "agent_message_set")
        /\ Happened(r, "typing_false") /\ Happened(q, "typing_true")
        /\ Cardinality({p \in DOMAIN db : ~IsTypingPath(p)}) = 4

-----------------------------------------------------------------------------
(* C11 *)

\* Some required setting was missing when the process started.
ConfigurationMissing ==
    \/ env_GOOGLE_APPLICATION_CREDENTIALS = ""
    \/ env_FIREBASE_DATABASE_URL = ""
    \/ env_MAIN_AGENT_URL = ""

\* C11: when the credential path, the database URL or the remote-agent
\* endpoint URL is missing at startup, the process never serves: no /chat
\* request is accepted, and none sees the missing value as an error of its
\* own delegation.
C11_MissingConfigurationNeverServes ==
    ConfigurationMissing =>
        /\ process # "serving"
        /\ \A r \in Reqs : trace[r] = <<>>
        /\ \A r \in Reqs : agent_response_text[r] # NotConfiguredText

-----------------------------------------------------------------------------
(* C12 *)

\* r's call of get_agent_response has returned.
InvocationReturned(r) == Happened(r, "agent_returned")

\* C12: a connection opened by an invocation is released before the
\* invocation returns, whether the agent replied or the remote call raised, so
\* no connection is open once every invocation has returned. (An invocation
\* whose close() itself raised is left out: what it leaves behind is not the
\* relay's doing.)
C12_ConnectionReleasedOnEveryPath ==
    /\ \A r \in Reqs :
         (/\ InvocationReturned(r)
          /\ Happened(r, "connection_created")
          /\ ~Happened(r, "close_raised"))
         => Happened(r, "connection_closed")
    /\ (\A r \in Reqs :
          /\ dpc[r] \notin {"creating", "invoking", "closing"}
          /\ ~Happened(r, "close_raised"))
       => open_connections = 0

-----------------------------------------------------------------------------
(* C13 *)

\* C13: no failure inside the delegation leaves the background task as an
\* exception: whether the agent invocation fails, the reply's write fails or
\* the final typing=false write fails, the task logs and ends normally.
C13_NoExceptionLeavesTask ==
    \A r \in Reqs : dpc[r] # "raised"

-----------------------------------------------------------------------------
(* C14 *)

\* r's call of get_agent_response met a failing connection call.
ConnectionCallRaised(r) ==
    \/ Happened(r, "create_raised")
    \/ Happened(r, "invoke_raised")
    \/ Happened(r, "close_raised")

\* The agent's reply to r was read and has neither a result nor an error.
ReplyWithNeither(r) ==
    /\ Happened(r, "connection_closed")
    /\ DOMAIN response_dict[r] \cap {"result", "error"} = {}

\* Once called, get_agent_response is either waiting for a connection call or
\* has returned; after a failing connection call it has returned a text with
\* "Error:", and after a reply with neither key the unknown-error text.
InvocationEndsInText ==
    \A r \in Reqs :
        /\ Happened(r, "get_agent_response")
           => \/ dpc[r] \in {"creating", "invoking", "closing"}
              \/ InvocationReturned(r)
        /\ ConnectionCallRaised(r)
           => /\ InvocationReturned(r)
              /\ agent_response_text[r].type = "str"
              /\ Contains(agent_response_text[r].s, "Error:")
        /\ ReplyWithNeither(r)
           => /\ InvocationReturned(r)
              /\ agent_response_text[r] =
                    Str(<<"Error:", " ", "Unknown error from agent.">>)

\* C14: get_agent_response never raises: once called it is either waiting for
\* a connection call or has returned; when creating the connection, invoking
\* the agent or closing the connection fails it returns an error-flavoured
\* text, and for a reply with neither result nor error it returns the error
\* "Unknown error from agent.".
C14_InvocationNeverRaises == []InvocationEndsInText

\* Between them the requests met a failing close() and a reply with neither key.
C14_Witness ==
    /\ \E r \in Reqs : Happened(r, "close_raised") /\ InvocationReturned(r)
    /\ \E r \in Reqs : ReplyWithNeither(r) /\ InvocationReturned(r)

-----------------------------------------------------------------------------
(* C15 *)

IsC15Event(e) ==
    e \in {"get_agent_response", "agent_returned", "agent_message_set",
           "agent_message_set_raised", "typing_false", "typing_false_raised"}

\* The orders a finished delegation may show: the invocation from its call to
\* its return, then the reply's write if there is one, then the clearing write.
C15_FinishedOrders ==
    {<<"get_agent_response", "agent_returned", t>> : t \in TypingFalseEvents}
    \cup {<<"get_agent_response", "agent_returned", w, t>> :
            w \in {"agent_message_set", "agent_message_set_raised"},
            t \in TypingFalseEvents}

\* What a delegation has done so far is a beginning of one of these orders.
DelegationInOrder ==
    \A r \in Reqs :
        LET steps == SelectSeq(trace[r], IsC15Event) IN
        \/ steps = <<>>
        \/ steps = <<"get_agent_response">>
        \/ steps \in C15_FinishedOrders

\* C15: within a delegation the agent is invoked, then the model reply is
\* written (if any), then typing=false is written: no reply is written after
\* the request's typing=false write, and typing=false is not written before
\* the invocation has ended.
C15_InvokeThenReplyThenClear == []DelegationInOrder

\* A delegation invoked the agent, stored its reply and cleared typing.
C15_Witness ==
    \E r \in Reqs :
        /\ Happened(r, "agent_invoked")
        /\ SelectSeq(trace[r], IsC15Event) =
             <<"get_agent_response", "agent_returned", "agent_message_set",
               "typing_false">>

-----------------------------------------------------------------------------
(* C16 *)

\* r's delegation was enqueued.
Delegated(r) == dpc[r] # "none"

\* r's delegation was enqueued and has not ended: its reply and its clearing
\* write are still to come.
InFlight(r) == dpc[r] \in {"queued", "creating", "invoking", "closing"}

SameConversation(r, q) ==
    /\ request[r].user_id = request[q].user_id
    /\ request[r].itinerary_id = request[q].itinerary_id

\* No database write has failed.
NoWriteFailed ==
    \A r \in Reqs :
        /\ ~Happened(r, "user_message_set_raised")
        /\ ~Happened(r, "typing_true_raised")
        /\ ~Happened(r, "agent_message_set_raised")
        /\ ~Happened(r, "typing_false_raised")

\* C16 as claimed: while no write fails, typing is true in every state in which
\* a delegation of the conversation is in flight, so a delegation that ends
\* first does not clear the flag under another one.
C16_Original ==
    NoWriteFailed =>
        \A r \in Reqs : InFlight(r) => db[TypingPathOf(r)] = TRUE

\* Typing is true while a delegation of the conversation is in flight and none
\* of the conversation has ended.
TypingWhileNoneEnded ==
    \A r \in Reqs :
        (/\ InFlight(r)
         /\ \A q \in Reqs : Delegated(q) /\ SameConversation(q, r) => InFlight(q))
        => db[TypingPathOf(r)] = TRUE

\* A step takes the typing flag of r's conversation from true to false only
\* when a delegation of that conversation ends in that step.
TypingClearedByEndingDelegation ==
    \A r \in Reqs :
        (/\ Delegated(r)
         /\ db[TypingPathOf(r)] = TRUE
         /\ db'[TypingPathOf(r)] = FALSE)
        => \E q \in Reqs :
              /\ SameConversation(q, r)
              /\ InFlight(q)
              /\ dpc'[q] = "done"

\* C16, amended: the typing flag is last-write-wins. It is true while a
\* delegation of the conversation is in flight and no delegation of the
\* conversation has ended, and only the end of a delegation clears it: the
\* first delegation to end clears the flag, also under another one in flight.
C16_TypingUntilFirstDelegationEnds ==
    []TypingWhileNoneEnded /\ [][TypingClearedByEndingDelegation]_vars

\* Two requests of one conversation are in flight together, the agent call of
\* one of them under way, and typing is true.
C16_Witness ==
    \E r, q \in Reqs :
        /\ r # q
        /\ SameConversation(r, q)
        /\ InFlight(r) /\ InFlight(q)
        /\ dpc[r] = "invoking"
        /\ db[TypingPathOf(r)] = TRUE

-----------------------------------------------------------------------------
(* C17 *)

\* Without MAIN_AGENT_URL no connection call is made, and a delegation that has
\* called get_agent_response has its error text and has issued typing=false.
UnconfiguredEndpointSkipsConnection ==
    env_MAIN_AGENT_URL = "" =>
        /\ open_connections = 0
        /\ \A r \in Reqs :
            /\ ~Happened(r, "connection_created")
            /\ ~Happened(r, "create_raised")
            /\ ~Happened(r, "agent_invoked")
            /\ ~Happened(r, "invoke_raised")
            /\ Happened(r, "get_agent_response")
               => /\ InvocationReturned(r)
                  /\ agent_response_text[r] =
                        Str(<<"Error:", " Main agent URL not configured.">>)
                  /\ TypingFalseIssued(r)

-----------------------------------------------------------------------------
(* main_agent/memory.py: values *)
(* Every Python value is a record with a type field: str, NoneType, int and *)
(* bool carry their text in s, a dict and a pydantic model their entries in *)
(* f, a list its elements in items.                                         *)

Dict(f) == [type |-> "dict", f |-> f]
Model(f) == [type |-> "model", f |-> f]
List(items) == [type |-> "list", items |-> items]
Bool(b) == [type |-> "bool", s |-> <<IF b THEN "True" ELSE "False">>]

\* The most elements a list of the itinerary has.
MaxDays == 2

\* The str values of the itinerary's fields; the first is the default.
Texts == {Str(<<>>), Str(<<"rome">>), Str(<<"nice">>)}

\* ItineraryState and its sub-models: a destination, a hotel with a name, and
\* a list of days with an activity each. Every field has a default.
Hotel(name) == Model([name |-> name])
Day(activity) == Model([activity |-> activity])
ItineraryState(destination, hotel, days) ==
    Model([destination |-> destination, hotel |-> hotel, days |-> List(days)])

DefaultItineraryState == ItineraryState(Str(<<>>), Hotel(Str(<<>>)), <<>>)

DayLists == UNION {[1..n -> {Day(a) : a \in Texts}] : n \in 0..MaxDays}

ItineraryStates ==
    {ItineraryState(d, Hotel(h), days) : d \in Texts, h \in Texts, days \in DayLists}

\* .dict(): the model and its sub-models as dicts.
RECURSIVE ToDict(_)
ToDict(v) ==
    IF v.type = "model"
    THEN Dict([k \in DOMAIN v.f |-> ToDict(v.f[k])])
    ELSE IF v.type = "list"
    THEN List([i \in DOMAIN v.items |-> ToDict(v.items[i])])
    ELSE v

\* Hotel(**d), Day(**d), ItineraryState(**d): the model built from a dict, a
\* missing field taking its default and an unknown key being ignored.
HotelOf(d) == Hotel(DictGet(d.f, "name", Str(<<>>)))
DayOf(d) == Day(DictGet(d.f, "activity", Str(<<>>)))
ItineraryStateOf(d) ==
    ItineraryState(
        DictGet(d.f, "destination", Str(<<>>)),
        IF "hotel" \in DOMAIN d.f THEN HotelOf(d.f["hotel"]) ELSE Hotel(Str(<<>>)),
        IF "days" \in DOMAIN d.f
        THEN [i \in DOMAIN d.f["days"].items |-> DayOf(d.f["days"].items[i])]
        ELSE <<>>)


-----------------------------------------------------------------------------
(* main_agent/memory.py: functions *)
(* A function of the context is an operator from the context state to the  *)
(* context state it leaves and its result: "ok", or the exception raised.   *)

STATE_INITIALIZED == "constants.STATE_INITIALIZED"
USER_EXIST == "constants.USER_EXIST"

\* "state" in data, for the types that have `in`.
StateIn(data) ==
    IF data.type = "dict" THEN "state" \in DOMAIN data.f
    ELSE IF data.type = "list"
    THEN \E i \in DOMAIN data.items :
            data.items[i].type = "str" /\ data.items[i].s = <<"state">>
    ELSE Contains(data.s, "state")

\* _load_precreated_plan(callback_context), with file at SAMPLE_SCENARIO_PATH.
load_precreated_plan(state, file) ==
    IF "itinerary_state" \in DOMAIN state
    THEN [state |-> state, result |-> "ok"]
    ELSE LET \* FileNotFoundError and JSONDecodeError are caught: data stays {}
             data == IF file.exists /\ file.parses THEN file.data ELSE Dict(EmptyDict)
         IN
         IF data.type \notin {"dict", "list", "str"}
         THEN \* `in` on None or a number
              [state |-> state, result |-> "TypeError"]
         ELSE IF StateIn(data) /\ data.type # "dict"
         THEN \* data["state"] on a list or a str
              [state |-> state, result |-> "TypeError"]
         ELSE LET initial_state ==
                      IF StateIn(data) /\ data.f["state"].type = "dict"
                      THEN ItineraryStateOf(data.f["state"])
                      ELSE DefaultItineraryState
              IN [state |-> Put(Put(Put(state, "itinerary_state", ToDict(initial_state)),
                                    STATE_INITIALIZED, Bool(TRUE)),
                                USER_EXIST, Bool(FALSE)),
                  result |-> "ok"]

\* get_state(tool_context)
get_state(state) ==
    ItineraryStateOf(DictGet(state, "itinerary_state", Dict(EmptyDict)))

\* update_state(tool_context, state): itinerary is the new ItineraryState.
update_state(state, itinerary) == Put(state, "itinerary_state", ToDict(itinerary))

\* One segment of a key: the text between two dots (the keys here have at most
\* one token there).
Segment(tokens) == IF tokens = <<>> THEN "" ELSE tokens[1]

\* key.split('.')
RECURSIVE Split(_)
Split(key) ==
    IF ~Contains(key, ".")
    THEN <<Segment(key)>>
    ELSE LET i == CHOOSE i \in 1..Len(key) :
                    key[i] = "." /\ \A j \in 1..(i - 1) : key[j] # "."
         IN <<Segment(SubSeq(key, 1, i - 1))>> \o Split(SubSeq(key, i + 1, Len(key)))

\* int(k): the texts it converts; for any other it raises ValueError.
IsIntText(k) == k \in {"0", "1", "2", "5", "-1"}
IntOf(k) ==
    CASE k = "0" -> 0 [] k = "1" -> 1 [] k = "2" -> 2 [] k = "5" -> 5 [] k = "-1" -> -1

\* obj[n] for a list: the position of the element, counted from the end for a
\* negative n; a position outside the list raises IndexError.
ListIndex(items, n) == IF n >= 0 THEN n + 1 ELSE Len(items) + n + 1

Raised(obj, exception) == [err |-> exception, obj |-> obj]

\* The loop over keys[:-1] and setattr(obj, keys[-1], value), on the object state
\* built by get_state: err is "ok" and obj the object with the field set, or
\* err is the exception and nothing was set.
RECURSIVE SetAt(_, _, _)
SetAt(obj, keys, value) ==
    LET k == Head(keys) IN
    IF Len(keys) = 1
    THEN \* setattr(obj, keys[-1], value)
         IF obj.type = "model" /\ k \in DOMAIN obj.f
         THEN [err |-> "ok", obj |-> Model([obj.f EXCEPT ![k] = value])]
         ELSE IF obj.type = "model"
         THEN Raised(obj, "ValueError")
         ELSE Raised(obj, "AttributeError")
    ELSE IF obj.type = "list"
    THEN \* obj = obj[int(k)]
         IF ~IsIntText(k)
         THEN Raised(obj, "ValueError")
         ELSE LET i == ListIndex(obj.items, IntOf(k)) IN
              IF i \notin DOMAIN obj.items
              THEN Raised(obj, "IndexError")
              ELSE LET sub == SetAt(obj.items[i], Tail(keys), value) IN
                   [err |-> sub.err, obj |-> List([obj.items EXCEPT ![i] = sub.obj])]
    ELSE \* obj = getattr(obj, k)
         IF obj.type = "model" /\ k \in DOMAIN obj.f
         THEN LET sub == SetAt(obj.f[k], Tail(keys), value) IN
              [err |-> sub.err, obj |-> Model([obj.f EXCEPT ![k] = sub.obj])]
         ELSE Raised(obj, "AttributeError")

\* Faulty variant of update_state_field: the field is set on the object that
\* get_state built, and update_state is not called.
update_state_field_NoWriteBack(state, key, value) ==
    LET set == SetAt(get_state(state), Split(key), value) IN
    [state |-> state, result |-> set.err]

\* Faulty variant of update_state_field: update_state is called in a finally
\* block, so the object get_state built is written back when the path fails.
update_state_field_WritesBackAnyway(state, key, value) ==
    LET set == SetAt(get_state(state), Split(key), value) IN
    [state |-> update_state(state, set.obj), result |-> set.err]

\* update_state_field(tool_context, key, value)
update_state_field(state, key, value) ==
    LET set == SetAt(get_state(state), Split(key), value) IN
    IF set.err = "ok"
    THEN [state |-> update_state(state, set.obj), result |-> "ok"]
    ELSE [state |-> state, result |-> set.err]


-----------------------------------------------------------------------------
(* main_agent/memory.py: the calls on one context *)

\* The keys update_state_field is called with: paths to a field of the
\* itinerary, of a sub-model and of a list element, and paths that name no
\* field, leave the list, use a segment that is no integer, end at a list
\* element, go through a str, or have an empty segment.
Keys ==
    {<<"destination">>,
     <<"hotel", ".", "name">>,
     <<"days", ".", "0", ".", "activity">>,
     <<"days", ".", "1", ".", "activity">>,
     <<"days", ".", "-1", ".", "activity">>,
     <<"budget">>,
     <<"hotel", ".", "stars">>,
     <<"days", ".", "5", ".", "activity">>,
     <<"days", ".", "first", ".", "activity">>,
     <<"days", ".", "0">>,
     <<"destination", ".", "name">>,
     <<"hotel", ".", ".", "name">>}

\* The values update_state_field is called with.
Values == {Str(<<"rome">>), Str(<<"nice">>)}

\* The states update_state is called with.
PlannedStates ==
    {DefaultItineraryState,
     ItineraryState(Str(<<"rome">>), Hotel(Str(<<"nice">>)),
                    [i \in 1..MaxDays |-> Day(Str(<<>>))]),
     ItineraryState(Str(<<>>), Hotel(Str(<<>>)), <<Day(Str(<<"nice">>))>>)}

\* A file whose text is not JSON: json.load raises JSONDecodeError.
NotJsonFile == [exists |-> TRUE, parses |-> FALSE, data |-> PyNone]

\* A file whose text is the JSON of data.
JsonFile(data) == [exists |-> TRUE, parses |-> TRUE, data |-> data]

\* What may be at SAMPLE_SCENARIO_PATH: nothing, text that is not JSON, a plan
\* with a whole state, with a part of a state, with no state, with a state
\* that is not an object, and JSON that is not an object: [], ["state"], null.
SampleFiles ==
    {NoFile,
     NotJsonFile,
     JsonFile(Dict([state |-> ToDict(ItineraryState(Str(<<"rome">>), Hotel(Str(<<"nice">>)),
                                                   <<Day(Str(<<"rome">>))>>))])),
     JsonFile(Dict([state |-> Dict([destination |-> Str(<<"nice">>)])])),
     JsonFile(Dict(EmptyDict)),
     JsonFile(Dict([state |-> Str(<<"rome">>)])),
     JsonFile(List(<<>>)),
     JsonFile(List(<<Str(<<"state">>)>>)),
     JsonFile(PyNone)}

\* The context before any call: it has no itinerary_state yet, and an entry of
\* its own.
MemoryInit ==
    /\ env_MAIN_AGENT_URL = "http://main-agent"
    /\ RelayInit
    /\ PathIdle
    /\ Serving
    /\ context_state = [k \in {"user_id"} |-> Str(<<"u1">>)]
    /\ sample_file \in SampleFiles
    /\ last_call = NoCall

Called(op, key, value, outcome) ==
    /\ context_state' = outcome.state
    /\ last_call' = [op |-> op, key |-> key, value |-> value, result |-> outcome.result]
    /\ UNCHANGED <<relayVars, pathVars, startVars, sample_file>>

LoadPlan ==
    Called("_load_precreated_plan", <<>>, PyNone,
           load_precreated_plan(context_state, sample_file))

GetState ==
    Called("get_state", <<>>, get_state(context_state),
           [state |-> context_state, result |-> "ok"])

UpdateState(itinerary) ==
    Called("update_state", <<>>, PyNone,
           [state |-> update_state(context_state, itinerary), result |-> "ok"])

UpdateStateField(key, value) ==
    Called("update_state_field", key, value,
           update_state_field(context_state, key, value))

MemoryNext ==
    \/ LoadPlan
    \/ GetState
    \/ \E itinerary \in PlannedStates : UpdateState(itinerary)
    \/ \E key \in Keys, value \in Values : UpdateStateField(key, value)

MemorySpec == MemoryInit /\ [][MemoryNext]_vars


-----------------------------------------------------------------------------
(* C18 *)

UpdateFieldOp == "update_state_field"

DayKey(n) == <<"days", ".", n, ".", "activity">>

\* key is a path to a field of the itinerary document doc that exists.
ValidPath(doc, key) ==
    \/ key = <<"destination">>
    \/ key = <<"hotel", ".", "name">>
    \/ key = DayKey("0") /\ Len(doc.f.days.items) >= 1
    \/ key = DayKey("1") /\ Len(doc.f.days.items) >= 2
    \/ key = DayKey("-1") /\ Len(doc.f.days.items) >= 1

\* The document doc with the field key addresses set to value, and nothing
\* else changed.
WithField(doc, key, value) ==
    CASE key = <<"destination">> -> [doc EXCEPT !.f.destination = value]
      [] key = <<"hotel", ".", "name">> -> [doc EXCEPT !.f.hotel.f.name = value]
      [] key = DayKey("0") -> [doc EXCEPT !.f.days.items[1].f.activity = value]
      [] key = DayKey("1") -> [doc EXCEPT !.f.days.items[2].f.activity = value]
      [] key = DayKey("-1") ->
            [doc EXCEPT !.f.days.items[Len(doc.f.days.items)].f.activity = value]

\* The field of doc that key addresses.
FieldOf(doc, key) ==
    CASE key = <<"destination">> -> doc.f.destination
      [] key = <<"hotel", ".", "name">> -> doc.f.hotel.f.name
      [] key = DayKey("0") -> doc.f.days.items[1].f.activity
      [] key = DayKey("1") -> doc.f.days.items[2].f.activity
      [] key = DayKey("-1") -> doc.f.days.items[Len(doc.f.days.items)].f.activity

\* A call of update_state_field with a valid path, on a context that has an
\* itinerary state, succeeds and leaves the context as it was but for the
\* addressed field, which is value; get_state then returns value there.
ValidUpdateSetsOneField ==
    (/\ last_call'.op = UpdateFieldOp
     /\ "itinerary_state" \in DOMAIN context_state
     /\ ValidPath(context_state["itinerary_state"], last_call'.key))
    => /\ last_call'.result = "ok"
       /\ context_state' =
            [context_state EXCEPT !["itinerary_state"] =
                WithField(@, last_call'.key, last_call'.value)]
       /\ FieldOf(get_state(context_state'), last_call'.key) = last_call'.value

\* C18: update_state_field(key, value) with a valid dotted path changes
\* exactly the addressed field of the stored itinerary state to value and
\* leaves every other field of the document and every other entry of the
\* context state unchanged; a following get_state returns a document whose
\* addressed field is value.
C18_UpdateChangesExactlyTheField == [][ValidUpdateSetsOneField]_vars

\* The activity of the second day was set, next to fields set before.
C18_Witness ==
    /\ last_call.op = UpdateFieldOp
    /\ last_call.key = DayKey("1")
    /\ last_call.value = Str(<<"nice">>)
    /\ last_call.result = "ok"
    /\ "user_id" \in DOMAIN context_state
    /\ LET doc == context_state["itinerary_state"] IN
        /\ doc.f.destination = Str(<<"rome">>)
        /\ doc.f.days.items[1].f.activity = Str(<<"rome">>)
        /\ doc.f.days.items[2].f.activity = Str(<<"nice">>)

-----------------------------------------------------------------------------
(* C19 *)

\* The failures the claim names end in an exception: a path that names a
\* missing attribute, a list index out of range, a list segment that is no
\* integer.
NamedFailuresRaise ==
    last_call.op = UpdateFieldOp =>
        /\ last_call.key \in {<<"budget">>, <<"hotel", ".", "stars">>,
                              <<"destination", ".", "name">>}
           => last_call.result \in {"AttributeError", "ValueError"}
        /\ last_call.key = DayKey("5") => last_call.result = "IndexError"
        /\ last_call.key = DayKey("first") => last_call.result = "ValueError"

\* A call of update_state_field that raises leaves the context state as it was.
FailedUpdateChangesNothing ==
    (last_call'.op = UpdateFieldOp /\ last_call'.result # "ok")
    => context_state' = context_state

\* C19: when update_state_field fails (missing attribute, list index out of
\* range, non-integer list segment) the stored itinerary state is left exactly
\* as it was: the document is written back only after the whole path was
\* resolved and the field set.
C19_FailedUpdateLeavesStateUntouched ==
    []NamedFailuresRaise /\ [][FailedUpdateChangesNothing]_vars

\* An update failed on a list index, with an itinerary of some days stored.
C19_Witness ==
    /\ last_call.op = UpdateFieldOp
    /\ last_call.result = "IndexError"
    /\ "itinerary_state" \in DOMAIN context_state
    /\ Len(context_state["itinerary_state"].f.days.items) >= 1

-----------------------------------------------------------------------------
(* C20 *)

LoadOp == "_load_precreated_plan"

\* The context has an itinerary state, and it is a document of ItineraryState.
ValidItineraryStored ==
    /\ "itinerary_state" \in DOMAIN context_state
    /\ context_state["itinerary_state"].type = "dict"
    /\ context_state["itinerary_state"] =
          ToDict(ItineraryStateOf(context_state["itinerary_state"]))

\* C20: _load_precreated_plan initialises the itinerary state at most once
\* per context. On a context that has an itinerary_state it changes nothing;
\* on one that has none it always leaves a valid itinerary_state: the loaded
\* one, or the empty default when the sample file is missing or malformed.
C20_LoadInitialisesOnce ==
    /\ [](last_call.op = LoadOp
            => last_call.result = "ok" /\ ValidItineraryStored)
    /\ [][(last_call'.op = LoadOp /\ "itinerary_state" \in DOMAIN context_state)
            => context_state' = context_state]_vars

=============================================================================
